---- MODULE Spec2Model ----
(***************************************************************************)
(* Model of brain.py (Deep Thinking Brain - Unified AI CLI): the thread    *)
(* history store (HistoryManager), the three provider adapters, the        *)
(* orchestrator (DeepThinkingBrain.generate_response / deep_thinking_mode) *)
(* and the session controller (main.run, interactive_mode).                *)
(***************************************************************************)
EXTENDS Integers, Sequences, FiniteSets, TLC

VARIABLES
    files,            \* history_dir: thread name -> NoFile or the JSON text of <name>.json
    current_thread,   \* HistoryManager.current_thread (history_file is derived from it)
    clock,            \* datetime.now()
    ret,              \* what the last direct call of a store or adapter method returned
    appended,         \* per thread, the add_message calls made so far (call log)
    default_provider, \* config.config['default_provider']
    mistral_api_key,  \* config.mistral_api_key is set
    gemini_configured,\* genai.configure(api_key=...) was called
    anthropic_client, \* config.anthropic_client is not None
    pc,               \* position of the session's single thread of control
    caller,           \* who awaits generate_response: run, loop, command, api
    args,             \* arguments of the generate_response call in progress
    context,          \* the window get_context_messages() handed to the adapters
    tasks,            \* per provider: state of its call in the current dispatch
    calls,            \* the adapter calls resolved in the current dispatch, in order
    responses,        \* deep_thinking_mode's responses dict
    response,         \* the value generate_response returned to its caller
    shown,            \* what was presented for the current turn
    turns             \* number of prompts processed so far (bounded)

hvars == <<files, current_thread, clock, ret, appended>>
cvars == <<default_provider, mistral_api_key, gemini_configured, anthropic_client>>
svars == <<pc, caller, args, context, tasks, calls, responses, response, shown, turns>>
vars == <<files, current_thread, clock, ret, appended,
          default_provider, mistral_api_key, gemini_configured, anthropic_client,
          pc, caller, args, context, tasks, calls, responses, response, shown, turns>>

(***************************************************************************)
(* Bounds                                                                  *)
(***************************************************************************)
MaxAppends == 3     \* direct add_message calls in the history specification
MaxClock == 1       \* distinct later instants datetime.now() can return
MaxK == 2           \* largest max_messages tried besides the default
MaxTurns == 2       \* prompts processed by one session
MaxContext == 2     \* length of the contexts handed to an adapter called directly

\* get_context_messages' default max_messages
DefaultMaxMessages == 10

(***************************************************************************)
(* Values                                                                  *)
(***************************************************************************)
None == "<None>"
NoFile == <<"absent">>
NoResponse == [none |-> TRUE]
Threads == {"default", "demo"}
Providers == {"mistral", "gemini", "claude"}
ProviderOrder == <<"mistral", "gemini", "claude">>
Prompts == {"ping"}
Min(a, b) == IF a < b THEN a ELSE b
Max(a, b) == IF a > b THEN a ELSE b

IsPrefix(s, t) == Len(s) <= Len(t) /\ SubSeq(t, 1, Len(s)) = s

\* The last n elements of s, in order (n >= 0).
LastN(s, n) == SubSeq(s, Len(s) - Min(n, Len(s)) + 1, Len(s))

(***************************************************************************)
(* JSON text of a history file (json.dump / json.load)                     *)
(***************************************************************************)
\* A Python str or None as a JSON token.
json_value(v) == IF v = None THEN <<"null">> ELSE <<"string", v>>

\* A JSON token back as a Python value.
json_parse_value(tok) == IF tok[1] = "null" THEN None ELSE tok[2]

\* json.dump of one message dict: the keys in insertion order with their tokens.
json_object(msg) ==
    << <<"role", json_value(msg.role)>>,
       <<"content", json_value(msg.content)>>,
       <<"provider", json_value(msg.provider)>>,
       <<"timestamp", <<"string", msg.timestamp>> >> >>

\* json.load of one object back into a dict.
json_parse_object(obj) ==
    [role |-> json_parse_value(obj[1][2]),
     content |-> json_parse_value(obj[2][2]),
     provider |-> json_parse_value(obj[3][2]),
     timestamp |-> obj[4][2][2]]

json_dump(history) == [i \in 1..Len(history) |-> json_object(history[i])]

json_load(text) == [i \in 1..Len(text) |-> json_parse_object(text[i])]

(***************************************************************************)
(* HistoryManager                                                          *)
(***************************************************************************)
\* load_history on the file of thread t: [] when the file does not exist.
load_history(fs, t) == IF fs[t] # NoFile THEN json_load(fs[t]) ELSE <<>>

\* save_history: the file of thread t is rewritten with the whole list.
save_history(fs, t, history) == [fs EXCEPT ![t] = json_dump(history)]

\* The message dict add_message builds.
new_message(role, content, provider, now) ==
    [role |-> role, content |-> content, provider |-> provider, timestamp |-> now]

\* add_message that skips a message equal to the last stored one.
add_message_dedup(fs, t, role, content, provider, now) ==
    LET history == load_history(fs, t)
        message == new_message(role, content, provider, now)
    IN  IF history # <<>> /\ history[Len(history)] = message
        THEN fs
        ELSE save_history(fs, t, Append(history, message))

\* add_message: load, append, save.
add_message(fs, t, role, content, provider, now) ==
    save_history(fs, t, Append(load_history(fs, t), new_message(role, content, provider, now)))

\* Python's s[i:] for any integer i.
PySliceFrom(s, i) ==
    LET n == Len(s)
        lo == IF i < 0 THEN Max(n + i, 0) ELSE Min(i, n)
    IN  SubSeq(s, lo + 1, n)

\* get_context_messages: history[-max_messages:] if history else [].
get_context_messages(fs, t, max_messages) ==
    LET history == load_history(fs, t)
    IN  IF history # <<>> THEN PySliceFrom(history, 0 - max_messages) ELSE <<>>

\* How a call ends: it returns a value or raises an exception.
Return(value) == [kind |-> "return", value |-> value]
Raise(exc) == [kind |-> "raise", exc |-> exc]

\* Where the text of a file ends before its JSON value is complete.
Truncated == << <<"<end of file>", <<"null">> >> >>

\* The first k objects of text, and nothing after them.
json_truncated(text, k) == Append(SubSeq(text, 1, k), Truncated)

\* json.load accepts the text only if the list in it is complete.
json_valid(text) == text = <<>> \/ text[Len(text)] # Truncated

\* load_history with its exception: json.load raises on an incomplete text.
load_history_result(fs, t) ==
    IF fs[t] # NoFile
    THEN IF json_valid(fs[t]) THEN Return(json_load(fs[t])) ELSE Raise("JSONDecodeError")
    ELSE Return(<<>>)

\* set_thread: the thread later operations address.
set_thread(thread_name) == thread_name

(***************************************************************************)
(* Provider adapters.  A call's outcome is either a returned dict or a     *)
(* raised exception.  e is what the backend does with the request: "ok",   *)
(* "exception" (the transport raises), "status" (a non-success status) or  *)
(* "malformed" (a body without the expected fields).                       *)
(***************************************************************************)
Backend == {"ok", "exception", "status", "malformed"}
Replies == {"pong"}

\* dict.get('error'): a missing key reads as falsy.
GetError(r) == "error" \in DOMAIN r /\ r.error

ErrorResult(text, provider) == [content |-> text, provider |-> provider, error |-> TRUE]
OkResult(text, provider, model) == [content |-> text, provider |-> provider, model |-> model]

\* A handler that catches transport errors only.
ExceptTransportOnly(outcome, label, provider) ==
    IF outcome.kind = "raise" /\ outcome.exc \in {"RequestException", "transport"}
    THEN Return(ErrorResult(label \o ": <str(e)>", provider))
    ELSE outcome

\* try: ... except Exception as e: return the provider's error dict.
ExceptException(outcome, label, provider) ==
    IF outcome.kind = "raise"
    THEN Return(ErrorResult(label \o ": <str(e)>", provider))
    ELSE outcome

\* The try block of MistralProvider.generate_response.
MistralBody(key, e, reply) ==
    IF ~key THEN Return(ErrorResult("Mistral API key not configured", "mistral"))
    ELSE CASE e = "exception" -> Raise("RequestException")
           [] e = "status" -> Return(ErrorResult("Mistral API error", "mistral"))
           [] e = "malformed" -> Raise("KeyError")
           [] OTHER -> Return(OkResult(reply, "mistral", "mistral-large-latest"))

\* The try block of GeminiProvider.generate_response; the library raises
\* when it was never configured with a key and on non-success statuses.
GeminiBody(configured, e, reply) ==
    IF ~configured THEN Raise("no API key")
    ELSE CASE e = "exception" -> Raise("transport")
           [] e = "status" -> Raise("status")
           [] e = "malformed" -> Raise("ValueError")
           [] OTHER -> Return(OkResult(reply, "gemini", "gemini-pro"))

\* The try block of ClaudeProvider.generate_response.  The awaited
\* messages.create call is taken to be able to succeed; were the client a
\* synchronous one, the await itself would raise inside the try, which is
\* the "exception" case.
ClaudeBody(client, e, reply) ==
    IF ~client THEN Return(ErrorResult("Anthropic API key not configured", "claude"))
    ELSE CASE e = "exception" -> Raise("transport")
           [] e = "status" -> Raise("APIStatusError")
           [] e = "malformed" -> Raise("IndexError")
           [] OTHER -> Return(OkResult(reply, "claude", "claude-3-sonnet-20240229"))

MistralProvider_generate_response(key, e, reply) ==
    ExceptException(MistralBody(key, e, reply), "Error with Mistral", "mistral")

GeminiProvider_generate_response(configured, e, reply) ==
    ExceptException(GeminiBody(configured, e, reply), "Error with Gemini", "gemini")

ClaudeProvider_generate_response(client, e, reply) ==
    ExceptException(ClaudeBody(client, e, reply), "Error with Claude", "claude")

\* if msg['role'] in ['user', 'assistant']: messages.append({role, content})
ChatMessages(ctx) ==
    LET F[i \in 0..Len(ctx)] ==
            IF i = 0 THEN <<>>
            ELSE IF ctx[i].role \in {"user", "assistant"}
                 THEN Append(F[i - 1], [role |-> ctx[i].role, content |-> ctx[i].content])
                 ELSE F[i - 1]
    IN  F[Len(ctx)]

\* The messages MistralProvider sends: the filtered context, then the prompt.
MistralMessages(prompt, ctx) ==
    Append(ChatMessages(ctx), [role |-> "user", content |-> prompt])

\* The messages ClaudeProvider sends: the filtered context, then the prompt.
ClaudeMessages(prompt, ctx) ==
    Append(ChatMessages(ctx), [role |-> "user", content |-> prompt])

\* Gemini's context[-5:]
GeminiContextWindow == 5

\* The full_prompt GeminiProvider sends: "role: content" lines of the last
\* five context messages, then the question; the bare prompt without context.
GeminiFullPrompt(prompt, ctx) ==
    LET recent == PySliceFrom(ctx, 0 - GeminiContextWindow)
    IN  IF ctx # <<>>
        THEN [context_text |-> [i \in 1..Len(recent) |->
                                   [role |-> recent[i].role, content |-> recent[i].content]],
              question |-> prompt]
        ELSE [context_text |-> <<>>, question |-> prompt]

\* What the adapter sends to its backend.
provider_request(p, prompt, ctx) ==
    CASE p = "mistral" -> MistralMessages(prompt, ctx)
      [] p = "claude" -> ClaudeMessages(prompt, ctx)
      [] OTHER -> GeminiFullPrompt(prompt, ctx).context_text

\* Whether the adapter reaches its network request at all: Mistral and
\* Claude return before it when their credential is missing.
IssuesRequest(p, key, configured, client) ==
    CASE p = "mistral" -> key
      [] p = "claude" -> client
      [] OTHER -> configured

\* self.providers[p].generate_response(...)
provider_generate_response(p, key, configured, client, e, reply) ==
    CASE p = "mistral" -> MistralProvider_generate_response(key, e, reply)
      [] p = "gemini" -> GeminiProvider_generate_response(configured, e, reply)
      [] OTHER -> ClaudeProvider_generate_response(client, e, reply)

(***************************************************************************)
(* State after construction: Config() with the default configuration,      *)
(* HistoryManager on an empty history directory, thread "default".         *)
(***************************************************************************)
NoTasks == [p \in Providers |-> "none"]
NoArgs == [prompt |-> None, provider |-> None, deep |-> FALSE]

HistoryInit ==
    /\ files = [t \in Threads |-> NoFile]
    /\ current_thread = "default"
    /\ clock = 0
    /\ ret = [op |-> "none"]
    /\ appended = [t \in Threads |-> <<>>]

SessionInit ==
    /\ pc = "init"
    /\ caller = "none"
    /\ args = NoArgs
    /\ context = <<>>
    /\ tasks = NoTasks
    /\ calls = <<>>
    /\ responses = <<>>
    /\ response = NoResponse
    /\ shown = "nothing"
    /\ turns = 0

\* The environments a session is started in, as <<MISTRAL_API_KEY set,
\* GEMINI_API_KEY set, ANTHROPIC_API_KEY set>>: each key is present in some
\* of them and missing in others.
Environments ==
    {<<TRUE, TRUE, TRUE>>, <<FALSE, TRUE, TRUE>>, <<TRUE, FALSE, FALSE>>,
     <<FALSE, FALSE, FALSE>>}

\* Config.setup_providers reads the keys; the default configuration names
\* 'mistral' as default provider.
Init ==
    /\ HistoryInit
    /\ SessionInit
    /\ default_provider = "mistral"
    /\ \E keys \in Environments :
          /\ mistral_api_key = keys[1]
          /\ gemini_configured = keys[2]
          /\ anthropic_client = keys[3]

\* The same with every combination of keys.
InitAdapter ==
    /\ HistoryInit
    /\ SessionInit
    /\ default_provider = "mistral"
    /\ mistral_api_key \in BOOLEAN
    /\ gemini_configured \in BOOLEAN
    /\ anthropic_client \in BOOLEAN

(***************************************************************************)
(* The history store driven directly, as test_history and                  *)
(* demo_interactive_features drive it.                                     *)
(***************************************************************************)
Roles == {"user", "assistant"}
HistoryInputs == {<<"user", "ping", None>>, <<"assistant", "pong", "mistral">>,
                  <<"assistant", "ping", None>>}

TotalAppended == Len(appended["default"]) + Len(appended["demo"])

\* time passes between two calls of datetime.now()
Tick ==
    /\ clock < MaxClock
    /\ clock' = clock + 1
    /\ UNCHANGED <<files, current_thread, ret, appended>>
    /\ UNCHANGED cvars /\ UNCHANGED svars

HAddMessage ==
    /\ TotalAppended < MaxAppends
    /\ \E m \in HistoryInputs :
          /\ files' = add_message(files, current_thread, m[1], m[2], m[3], clock)
          /\ appended' = [appended EXCEPT ![current_thread] =
                             Append(@, new_message(m[1], m[2], m[3], clock))]
    /\ ret' = [op |-> "add_message"]
    /\ UNCHANGED <<current_thread, clock>>
    /\ UNCHANGED cvars /\ UNCHANGED svars

\* A set_thread that starts an empty file for a thread that has none yet.
HSetThreadCreating ==
    /\ \E t \in Threads :
          /\ current_thread' = set_thread(t)
          /\ files' = IF files[t] = NoFile THEN save_history(files, t, <<>>) ELSE files
    /\ ret' = [op |-> "set_thread"]
    /\ UNCHANGED <<clock, appended>>
    /\ UNCHANGED cvars /\ UNCHANGED svars

HSetThread ==
    /\ \E t \in Threads : current_thread' = set_thread(t)
    /\ ret' = [op |-> "set_thread"]
    /\ UNCHANGED <<files, clock, appended>>
    /\ UNCHANGED cvars /\ UNCHANGED svars

\* A load_history that hands the stored messages out and leaves an empty list
\* behind.
HLoadHistoryConsuming ==
    /\ ret' = [op |-> "load_history", value |-> load_history(files, current_thread),
               previous |-> IF ret.op = "load_history" THEN <<ret.value>> ELSE <<>>]
    /\ files' = IF files[current_thread] = NoFile THEN files
                ELSE save_history(files, current_thread, <<>>)
    /\ UNCHANGED <<current_thread, clock, appended>>
    /\ UNCHANGED cvars /\ UNCHANGED svars

\* load_history called directly; previous holds what the call just before
\* returned when that was a load_history too (same thread, nothing between).
HLoadHistory ==
    /\ ret' = [op |-> "load_history", value |-> load_history(files, current_thread),
               previous |-> IF ret.op = "load_history" THEN <<ret.value>> ELSE <<>>]
    /\ UNCHANGED <<files, current_thread, clock, appended>>
    /\ UNCHANGED cvars /\ UNCHANGED svars

HGetContextMessages ==
    /\ \E k \in (0..MaxK) \cup {DefaultMaxMessages} :
          ret' = [op |-> "get_context_messages", max_messages |-> k,
                  value |-> get_context_messages(files, current_thread, k)]
    /\ UNCHANGED <<files, current_thread, clock, appended>>
    /\ UNCHANGED cvars /\ UNCHANGED svars

HistoryNext ==
    \/ Tick
    \/ HAddMessage
    \/ HSetThread
    \/ HLoadHistory
    \/ HGetContextMessages

\* The store does not read the credentials: they are all present here.
InitHistory ==
    /\ HistoryInit
    /\ SessionInit
    /\ default_provider = "mistral"
    /\ mistral_api_key = TRUE
    /\ gemini_configured = TRUE
    /\ anthropic_client = TRUE

SpecHistory == InitHistory /\ [][HistoryNext]_vars

(***************************************************************************)
(* Orchestrator: DeepThinkingBrain.generate_response / deep_thinking_mode  *)
(***************************************************************************)
UnknownId == "gpt4"
ProviderArgs == Providers \cup {None, UnknownId}
SynthesisPrompt == "synthesis_prompt"

\* What a backend that answers well replies to a prompt.
RepliesTo(prompt) == IF prompt = SynthesisPrompt THEN {"combined"} ELSE Replies

\* The adapter a single dispatch goes to: the named one when it is
\* registered, the default provider otherwise.
dispatch_target(provider, default) ==
    IF provider # None /\ provider \in Providers THEN provider ELSE default

\* responses[provider_name] = response
store_response(resps, p, r) ==
    [q \in DOMAIN resps \cup {p} |-> IF q = p THEN r ELSE resps[q]]

\* A loop that stops at the first task that has resolved.
FanOutCompleteEarly(ts) == \E p \in Providers : ts[p] = "done"

\* The for loop over tasks has awaited every task.
FanOutComplete(ts) == \A p \in Providers : ts[p] = "done"

\* A result that keeps only the responses that did not fail.
deep_result_successes_only(synthesis, resps) ==
    [content |-> synthesis.content,
     provider |-> "deep_thinking",
     model |-> "multi-provider-synthesis",
     individual_responses |->
         [q \in {x \in DOMAIN resps : ~GetError(resps[x])} |-> resps[q]]]

\* The dict deep_thinking_mode returns.
deep_result(synthesis, resps) ==
    [content |-> synthesis.content,
     provider |-> "deep_thinking",
     model |-> "multi-provider-synthesis",
     individual_responses |-> resps]

\* display_response: what is presented.
display_response(r) ==
    IF GetError(r) THEN "error"
    ELSE IF r.provider = "deep_thinking" THEN "synthesis panel"
    ELSE "provider panel"

\* The task the fan-out loop (or the single dispatch) awaits next: the first
\* one in ['mistral', 'gemini', 'claude'] that was created and has not run.
Awaited(p) ==
    /\ tasks[p] = "created"
    /\ \A q \in Providers : tasks[q] # "running"
    /\ \E i \in 1..Len(ProviderOrder) :
          /\ ProviderOrder[i] = p
          /\ \A j \in 1..(i - 1) : tasks[ProviderOrder[j]] # "created"

\* The turn's local state is gone when the turn ends.
ResetTurn ==
    /\ caller' = "none"
    /\ args' = NoArgs
    /\ context' = <<>>
    /\ tasks' = NoTasks
    /\ calls' = <<>>
    /\ responses' = <<>>
    /\ response' = NoResponse

\* An except clause that leaves the loop after printing the error.
HandleExceptionEndsLoop(who) ==
    /\ pc' = IF who \in {"loop", "command"} THEN "done" ELSE "crashed"
    /\ shown' = "exception"

\* An exception raised while the input of who is processed: interactive_mode's
\* 'except Exception' prints it and the loop reads the next input; main.run
\* and a direct caller have no handler.
HandleException(who) ==
    /\ pc' = IF who \in {"loop", "command"} THEN "prompt" ELSE "crashed"
    /\ shown' = "exception"

\* An exception leaving an adapter call inside generate_response.
Propagate ==
    /\ HandleException(caller)
    /\ UNCHANGED <<responses, response>>

\* An adapter call of the dispatch comes back with what backend behaviour e
\* and reply make of it.
Deliver(p, e, reply) ==
    LET out == provider_generate_response(p, mistral_api_key, gemini_configured,
                                          anthropic_client, e, reply)
        reached == IssuesRequest(p, mistral_api_key, gemini_configured, anthropic_client)
    IN  /\ calls' = Append(calls, [provider |-> p, purpose |-> pc, failed |-> e # "ok",
                                   context |-> context,
                                   sent |-> IF reached
                                            THEN provider_request(p, args.prompt, context)
                                            ELSE <<>>,
                                   outcome |-> out])
        /\ tasks' = [tasks EXCEPT ![p] = "done"]
        /\ IF out.kind = "raise" THEN Propagate
           ELSE IF pc = "single"
           THEN /\ response' = out.value
                /\ pc' = "returned"
                /\ UNCHANGED <<responses, shown>>
           ELSE /\ responses' = store_response(responses, p, out.value)
                /\ UNCHANGED <<pc, response, shown>>
        /\ UNCHANGED <<caller, args, context, turns>>
        /\ UNCHANGED hvars /\ UNCHANGED cvars

\* A synthesis call that is handed the history window like the fan-out calls.
DeliverSynthesisWithWindow(e, reply) ==
    LET out == provider_generate_response("mistral", mistral_api_key, gemini_configured,
                                          anthropic_client, e, reply)
        reached == IssuesRequest("mistral", mistral_api_key, gemini_configured,
                                 anthropic_client)
        ctx == context
    IN  /\ calls' = Append(calls, [provider |-> "mistral", purpose |-> "synthesis",
                                   failed |-> e # "ok",
                                   context |-> ctx,
                                   sent |-> IF reached
                                            THEN provider_request("mistral",
                                                                  SynthesisPrompt, ctx)
                                            ELSE <<>>,
                                   outcome |-> out])
        /\ IF out.kind = "raise" THEN Propagate
           ELSE /\ response' = deep_result(out.value, responses)
                /\ pc' = "returned"
                /\ UNCHANGED <<responses, shown>>
        /\ UNCHANGED <<caller, args, context, tasks, turns>>
        /\ UNCHANGED hvars /\ UNCHANGED cvars

\* The synthesis call comes back.  It was made without a context argument,
\* which the adapter treats as no context.
DeliverSynthesis(e, reply) ==
    LET out == provider_generate_response("mistral", mistral_api_key, gemini_configured,
                                          anthropic_client, e, reply)
        reached == IssuesRequest("mistral", mistral_api_key, gemini_configured,
                                 anthropic_client)
        ctx == <<>>
    IN  /\ calls' = Append(calls, [provider |-> "mistral", purpose |-> "synthesis",
                                   failed |-> e # "ok",
                                   context |-> ctx,
                                   sent |-> IF reached
                                            THEN provider_request("mistral",
                                                                  SynthesisPrompt, ctx)
                                            ELSE <<>>,
                                   outcome |-> out])
        /\ IF out.kind = "raise" THEN Propagate
           ELSE /\ response' = deep_result(out.value, responses)
                /\ pc' = "returned"
                /\ UNCHANGED <<responses, shown>>
        /\ UNCHANGED <<caller, args, context, tasks, turns>>
        /\ UNCHANGED hvars /\ UNCHANGED cvars

\* generate_response is entered: the context window is read and the
\* adapter coroutines are created (all three in deep thinking mode).  When
\* the thread's file cannot be parsed, get_context_messages raises and the
\* exception leaves generate_response.
EnterGenerateResponse(prompt, provider, deep, who, thread) ==
    IF load_history_result(files, thread).kind = "raise"
    THEN /\ HandleException(who)
         /\ ResetTurn
    ELSE /\ caller' = who
         /\ args' = [prompt |-> prompt, provider |-> provider, deep |-> deep]
         /\ context' = get_context_messages(files, thread, DefaultMaxMessages)
         /\ calls' = <<>>
         /\ responses' = <<>>
         /\ response' = NoResponse
         /\ shown' = "nothing"
         /\ tasks' = IF deep THEN [p \in Providers |-> "created"]
                     ELSE [NoTasks EXCEPT ![dispatch_target(provider, default_provider)] =
                                              "created"]
         /\ pc' = IF deep THEN "fanout" ELSE "single"

\* await task: the adapter's coroutine starts running; without its
\* credential it returns before any request is made.
AdapterBegin ==
    /\ pc \in {"single", "fanout"}
    /\ \E p \in Providers :
          /\ Awaited(p)
          /\ IF IssuesRequest(p, mistral_api_key, gemini_configured, anthropic_client)
             THEN /\ tasks' = [tasks EXCEPT ![p] = "running"]
                  /\ UNCHANGED <<pc, caller, args, context, calls, responses, response,
                                 shown, turns>>
                  /\ UNCHANGED hvars /\ UNCHANGED cvars
             ELSE Deliver(p, "not_called", "")

\* The backend answers (or fails) and the awaited adapter call resolves.
AdapterResolve ==
    /\ pc \in {"single", "fanout"}
    /\ \E p \in Providers :
          /\ tasks[p] = "running"
          /\ \E e \in Backend, reply \in RepliesTo(args.prompt) : Deliver(p, e, reply)

\* A deep thinking mode that gives up without synthesis when every
\* response of the fan-out failed.
StartSynthesisUnlessAllFailed ==
    /\ pc = "fanout"
    /\ FanOutComplete(tasks)
    /\ IF \A p \in Providers : GetError(responses[p])
       THEN /\ response' = ErrorResult("All providers failed", "deep_thinking")
            /\ pc' = "returned"
            /\ UNCHANGED <<caller, args, context, tasks, calls, responses, shown, turns>>
            /\ UNCHANGED hvars /\ UNCHANGED cvars
       ELSE IF IssuesRequest("mistral", mistral_api_key, gemini_configured, anthropic_client)
       THEN /\ pc' = "synth"
            /\ UNCHANGED <<caller, args, context, tasks, calls, responses, response,
                           shown, turns>>
            /\ UNCHANGED hvars /\ UNCHANGED cvars
       ELSE DeliverSynthesis("not_called", "")

\* After the loop: the synthesis prompt is built from the responses and
\* handed to the Mistral adapter.
StartSynthesis ==
    /\ pc = "fanout"
    /\ FanOutComplete(tasks)
    /\ IF IssuesRequest("mistral", mistral_api_key, gemini_configured, anthropic_client)
       THEN /\ pc' = "synth"
            /\ UNCHANGED <<caller, args, context, tasks, calls, responses, response,
                           shown, turns>>
            /\ UNCHANGED hvars /\ UNCHANGED cvars
       ELSE DeliverSynthesis("not_called", "")

SynthesisResolve ==
    /\ pc = "synth"
    /\ \E e \in Backend, reply \in RepliesTo(SynthesisPrompt) : DeliverSynthesis(e, reply)

(***************************************************************************)
(* Session controller: main, main.run, interactive_mode, handle_command    *)
(***************************************************************************)
\* A save that stores the assistant message before the user message.
SaveTurnAssistantFirst ==
    LET fs1 == add_message(files, current_thread, "assistant", response.content,
                           response.provider, clock)
    IN  /\ files' = add_message(fs1, current_thread, "user", args.prompt, None, clock)
        /\ appended' = [appended EXCEPT ![current_thread] =
              @ \o << new_message("assistant", response.content, response.provider, clock),
                      new_message("user", args.prompt, None, clock) >>]
        /\ UNCHANGED <<current_thread, clock, ret>>

\* A save that stores the user message only when the result is a failed one.
SaveTurnSkipFailed ==
    LET fs1 == add_message(files, current_thread, "user", args.prompt, None, clock)
    IN  /\ files' = IF GetError(response) THEN fs1
                    ELSE add_message(fs1, current_thread, "assistant", response.content,
                                     response.provider, clock)
        /\ appended' = [appended EXCEPT ![current_thread] =
              @ \o IF GetError(response)
                   THEN << new_message("user", args.prompt, None, clock) >>
                   ELSE << new_message("user", args.prompt, None, clock),
                           new_message("assistant", response.content, response.provider,
                                       clock) >>]
        /\ UNCHANGED <<current_thread, clock, ret>>

\* history.add_message('user', prompt) then
\* history.add_message('assistant', response['content'], response['provider']).
SaveTurn ==
    LET fs1 == add_message(files, current_thread, "user", args.prompt, None, clock)
    IN  /\ files' = add_message(fs1, current_thread, "assistant", response.content,
                                response.provider, clock)
        /\ appended' = [appended EXCEPT ![current_thread] =
              @ \o << new_message("user", args.prompt, None, clock),
                      new_message("assistant", response.content, response.provider,
                                  clock) >>]
        /\ UNCHANGED <<current_thread, clock, ret>>

\* A new process: DeepThinkingBrain() is constructed over the same history
\* directory and environment.
Restart ==
    /\ pc \in {"done", "crashed"}
    /\ pc' = "init"
    /\ current_thread' = "default"
    /\ default_provider' = "mistral"
    /\ shown' = "nothing"
    /\ UNCHANGED <<files, clock, ret, appended>>
    /\ UNCHANGED <<mistral_api_key, gemini_configured, anthropic_client>>
    /\ UNCHANGED <<caller, args, context, tasks, calls, responses, response, turns>>

\* main with a prompt: set the thread and call generate_response.
MainRun ==
    /\ pc = "init"
    /\ turns < MaxTurns
    /\ \E thread \in Threads, prompt \in Prompts, provider \in Providers \cup {None},
          deep \in BOOLEAN :
          /\ current_thread' = set_thread(thread)
          /\ EnterGenerateResponse(prompt, provider, deep, "run", thread)
    /\ turns' = turns + 1
    /\ UNCHANGED <<files, clock, ret, appended>>
    /\ UNCHANGED cvars

\* main --interactive: set the thread and enter the loop.
MainInteractive ==
    /\ pc = "init"
    /\ \E thread \in Threads : current_thread' = set_thread(thread)
    /\ pc' = "prompt"
    /\ UNCHANGED <<files, clock, ret, appended>>
    /\ UNCHANGED <<caller, args, context, tasks, calls, responses, response, shown, turns>>
    /\ UNCHANGED cvars

\* main with neither a prompt nor --interactive.
MainNoPrompt ==
    /\ pc = "init"
    /\ \E thread \in Threads : current_thread' = set_thread(thread)
    /\ pc' = "done"
    /\ UNCHANGED <<files, clock, ret, appended>>
    /\ UNCHANGED <<caller, args, context, tasks, calls, responses, response, shown, turns>>
    /\ UNCHANGED cvars

\* brain.generate_response(prompt, provider=...) called directly, as
\* test_simple_query calls it.
ApiCall ==
    /\ pc = "init"
    /\ turns < MaxTurns
    /\ \E prompt \in Prompts, provider \in ProviderArgs :
          EnterGenerateResponse(prompt, provider, FALSE, "api", current_thread)
    /\ turns' = turns + 1
    /\ UNCHANGED hvars /\ UNCHANGED cvars

\* main.run after generate_response returned: display, then save the turn.
FinishRun ==
    /\ pc = "returned" /\ caller = "run"
    /\ shown' = display_response(response)
    /\ SaveTurn
    /\ pc' = "done"
    /\ ResetTurn
    /\ UNCHANGED turns
    /\ UNCHANGED cvars

\* interactive_mode after generate_response returned: display, save the turn,
\* read the next input.
FinishLoop ==
    /\ pc = "returned" /\ caller = "loop"
    /\ shown' = display_response(response)
    /\ SaveTurn
    /\ pc' = "prompt"
    /\ ResetTurn
    /\ UNCHANGED turns
    /\ UNCHANGED cvars

\* handle_command '/deep' after generate_response returned: display only.
FinishCommand ==
    /\ pc = "returned" /\ caller = "command"
    /\ shown' = display_response(response)
    /\ pc' = "prompt"
    /\ ResetTurn
    /\ UNCHANGED turns
    /\ UNCHANGED hvars /\ UNCHANGED cvars

\* The direct caller has its result.
FinishApi ==
    /\ pc = "returned" /\ caller = "api"
    /\ pc' = "done"
    /\ ResetTurn
    /\ UNCHANGED <<shown, turns>>
    /\ UNCHANGED hvars /\ UNCHANGED cvars

\* A KeyboardInterrupt while generate_response is awaited: no adapter
\* catches it; interactive_mode breaks out of its loop, main.run and a direct
\* caller end with it.  Nothing was saved yet.
DispatchInterrupted ==
    /\ pc \in {"single", "fanout", "synth"}
    /\ pc' = IF caller \in {"loop", "command"} THEN "done" ELSE "crashed"
    /\ ResetTurn
    /\ UNCHANGED <<shown, turns>>
    /\ UNCHANGED hvars /\ UNCHANGED cvars

\* 'quit', 'exit', 'q' or a KeyboardInterrupt at the prompt.
InputExit ==
    /\ pc = "prompt"
    /\ pc' = "done"
    /\ UNCHANGED <<caller, args, context, tasks, calls, responses, response, shown, turns>>
    /\ UNCHANGED hvars /\ UNCHANGED cvars

\* 'help' and '/config' only print, and so does '/history' over a readable
\* file; nothing of the state changes.
InputShow ==
    /\ pc = "prompt"
    /\ UNCHANGED svars
    /\ UNCHANGED hvars /\ UNCHANGED cvars

\* Any other input is a prompt for the default provider.
InputPrompt ==
    /\ pc = "prompt"
    /\ turns < MaxTurns
    /\ \E prompt \in Prompts :
          EnterGenerateResponse(prompt, None, FALSE, "loop", current_thread)
    /\ turns' = turns + 1
    /\ UNCHANGED hvars /\ UNCHANGED cvars

\* '/deep <question>'
CommandDeep ==
    /\ pc = "prompt"
    /\ turns < MaxTurns
    /\ \E prompt \in Prompts :
          EnterGenerateResponse(prompt, None, TRUE, "command", current_thread)
    /\ turns' = turns + 1
    /\ UNCHANGED hvars /\ UNCHANGED cvars

\* '/provider <name>'
CommandProvider ==
    /\ pc = "prompt"
    /\ \E name \in Providers \cup {UnknownId} :
          default_provider' = IF name \in Providers THEN name ELSE default_provider
    /\ UNCHANGED <<mistral_api_key, gemini_configured, anthropic_client>>
    /\ UNCHANGED svars
    /\ UNCHANGED hvars

\* '/thread <name>'
CommandThread ==
    /\ pc = "prompt"
    /\ \E t \in Threads : current_thread' = set_thread(t)
    /\ UNCHANGED <<files, clock, ret, appended>>
    /\ UNCHANGED svars
    /\ UNCHANGED cvars

Next ==
    \/ MainRun
    \/ MainInteractive
    \/ MainNoPrompt
    \/ ApiCall
    \/ AdapterBegin
    \/ AdapterResolve
    \/ StartSynthesis
    \/ SynthesisResolve
    \/ FinishRun
    \/ FinishLoop
    \/ FinishCommand
    \/ FinishApi
    \/ DispatchInterrupted
    \/ InputExit
    \/ InputShow
    \/ InputPrompt
    \/ CommandDeep
    \/ CommandProvider
    \/ CommandThread
    \/ Restart

Spec == Init /\ [][Next]_vars

(***************************************************************************)
(* The adapters called directly, as test_providers and test_simple_query   *)
(* reach them: any adapter, any credentials, any backend behaviour.        *)
(***************************************************************************)
ContextRoles == {"user", "assistant", "system"}
ContextMessages == {new_message(r, "earlier", None, 0) : r \in ContextRoles}
Contexts == UNION {[1..n -> ContextMessages] : n \in 0..MaxContext}

AdapterCall ==
    /\ \E p \in Providers, prompt \in Prompts, ctx \in Contexts, e \in Backend,
          reply \in Replies :
          LET reached == IssuesRequest(p, mistral_api_key, gemini_configured,
                                       anthropic_client)
          IN  ret' = [op |-> "generate_response", provider |-> p, prompt |-> prompt,
                      context |-> ctx, reached |-> reached,
                      env |-> IF reached THEN e ELSE "not_called",
                      sent |-> IF reached THEN provider_request(p, prompt, ctx) ELSE <<>>,
                      outcome |-> provider_generate_response(p, mistral_api_key,
                                      gemini_configured, anthropic_client, e, reply)]
    /\ UNCHANGED <<files, current_thread, clock, appended>>
    /\ UNCHANGED cvars /\ UNCHANGED svars

AdapterNext == AdapterCall

SpecAdapter == InitAdapter /\ [][AdapterNext]_vars

(***************************************************************************)
(* Claims about the adapters                                               *)
(***************************************************************************)
ErrorTexts ==
    {"Mistral API key not configured", "Mistral API error", "Error with Mistral: <str(e)>",
     "Error with Gemini: <str(e)>", "Anthropic API key not configured",
     "Error with Claude: <str(e)>"}

\* C3: whatever the failure source (missing credential, transport
\* exception, non-success status, malformed body), each adapter's
\* generate_response returns a dict and never raises; when a failure source
\* was present the dict has error = True, an error text as content and the
\* adapter's own name as provider.
C3_AdapterNeverRaises ==
    ret.op = "generate_response" =>
        /\ ret.outcome.kind = "return"
        /\ ret.outcome.value.provider = ret.provider
        /\ (ret.env # "ok" =>
               /\ GetError(ret.outcome.value)
               /\ ret.outcome.value.content \in ErrorTexts)
        /\ (ret.env = "ok" =>
               /\ ~GetError(ret.outcome.value)
               /\ ret.outcome.value.content \in Replies)

\* Witness for C3: a Mistral call whose backend answered with a malformed
\* body came back as a failed result.
C3_Witness ==
    /\ ret.op = "generate_response"
    /\ ret.provider = "mistral"
    /\ ret.env = "malformed"
    /\ ret.outcome.kind = "return"
    /\ GetError(ret.outcome.value)

(***************************************************************************)
(* Claims about the orchestrator and the session                           *)
(***************************************************************************)
FanOutCalls == {i \in 1..Len(calls) : calls[i].purpose = "fanout"}
SynthesisCalls == {i \in 1..Len(calls) : calls[i].purpose = "synthesis"}
DeepPastFanOut == args.deep /\ pc \in {"synth", "returned"}
DeepReturned == args.deep /\ pc = "returned"

\* C1: once control is past the fan-out loop of deep_thinking_mode, every
\* adapter call of the fan-out has resolved and the responses map holds
\* exactly one entry per registered adapter, a failed adapter's entry being
\* present with error = True, whatever the mix of successes and failures.
C1_FanOutIsJoin ==
    DeepPastFanOut =>
        /\ \A p \in Providers : tasks[p] = "done"
        /\ DOMAIN responses = Providers
        /\ Cardinality(FanOutCalls) = Cardinality(Providers)
        /\ \A i \in FanOutCalls :
              /\ responses[calls[i].provider].provider = calls[i].provider
              /\ GetError(responses[calls[i].provider]) = calls[i].failed

\* Witness for C1: past the fan-out with one adapter failed and another not.
C1_Witness ==
    /\ DeepPastFanOut
    /\ DOMAIN responses = Providers
    /\ GetError(responses["gemini"])
    /\ ~GetError(responses["mistral"])

\* C2 (as claimed): in a fan-out no adapter call has resolved while another
\* adapter's call has not yet begun executing.
C2_AllStartedBeforeAnyResolves ==
    (args.deep /\ pc = "fanout") =>
        ~(\E p, q \in Providers : tasks[p] = "done" /\ tasks[q] = "created")

\* C4: a deep thinking call that has returned made exactly one synthesis
\* call, after all fan-out calls, and returned the synthesis result built
\* from it, also when every adapter of the fan-out failed; no second
\* synthesis call is ever made.
C4_SynthesisNeverShortCircuited ==
    /\ Cardinality(SynthesisCalls) <= 1
    /\ \A i \in SynthesisCalls : \A j \in FanOutCalls : j < i
    /\ DeepReturned =>
          /\ SynthesisCalls = {Len(calls)}
          /\ Cardinality(FanOutCalls) = Cardinality(Providers)
          /\ response.provider = "deep_thinking"
          /\ response.content = calls[Len(calls)].outcome.value.content

\* Witness for C4: a deep thinking call returned although all three adapters
\* had failed, and the synthesis call itself failed.
C4_Witness ==
    /\ DeepReturned
    /\ \A i \in FanOutCalls : calls[i].failed
    /\ Cardinality(FanOutCalls) = 3
    /\ \E i \in SynthesisCalls : calls[i].failed

\* C5 (as claimed): when the synthesis call failed, the result deep thinking
\* returns carries error = True with that adapter's error text, and its
\* individual responses are the fan-out map.
C5_FailedSynthesisIsFlagged ==
    (DeepReturned /\ \E i \in SynthesisCalls : calls[i].failed) =>
        /\ GetError(response)
        /\ response.content = calls[Len(calls)].outcome.value.content
        /\ response.individual_responses = responses

\* C6: the individual responses of the returned synthesis result hold, for
\* every adapter of the fan-out, exactly the dict that adapter returned.
C6_PerBackendResultsUnmodified ==
    DeepReturned =>
        /\ DOMAIN response.individual_responses = Providers
        /\ \A i \in FanOutCalls :
              response.individual_responses[calls[i].provider] = calls[i].outcome.value

\* Witness for C6: a mixed fan-out returned: gemini succeeded, mistral and
\* claude failed, and all three entries are in the returned result.
C6_Witness ==
    /\ DeepReturned
    /\ GetError(response.individual_responses["mistral"])
    /\ ~GetError(response.individual_responses["gemini"])
    /\ GetError(response.individual_responses["claude"])

\* C7 (as claimed): a single dispatch naming a backend id that is not
\* registered starts no adapter call and returns no backend's result.
C7_UnknownBackendIsSignalled ==
    (~args.deep /\ args.provider \notin Providers \cup {None}) =>
        /\ \A p \in Providers : tasks[p] \notin {"running", "done"}
        /\ calls = <<>>
        /\ pc # "returned"

\* C10: when main.run or the interactive loop finishes a single-dispatch
\* turn, the active thread's history becomes what it was, followed by the
\* user message with the prompt and then the assistant message with the
\* result's content and the name of the adapter that produced it; no other
\* thread changes.
C10_SingleDispatchTurnAppended ==
    [][(pc = "returned" /\ caller \in {"run", "loop"} /\ ~args.deep /\ pc' # "returned") =>
         LET H == load_history(files, current_thread)
             H2 == load_history(files', current_thread)
             n == Len(H)
         IN  /\ current_thread' = current_thread
             /\ Len(calls) = 1
             /\ Len(H2) = n + 2
             /\ SubSeq(H2, 1, n) = H
             /\ H2[n + 1].role = "user"
             /\ H2[n + 1].content = args.prompt
             /\ H2[n + 1].provider = None
             /\ H2[n + 2].role = "assistant"
             /\ H2[n + 2].content = calls[1].outcome.value.content
             /\ H2[n + 2].provider = calls[1].provider
             /\ \A t \in Threads \ {current_thread} : files'[t] = files[t]]_vars

\* Witness for C10: thread "demo" holds two single-dispatch turns, the first
\* being [user ping, assistant pong by gemini] stored on the empty thread.
C10_Witness ==
    LET H == load_history(files, "demo")
    IN  /\ Len(H) = 4
        /\ H[1].role = "user" /\ H[1].content = "ping"
        /\ H[2].role = "assistant" /\ H[2].content = "pong" /\ H[2].provider = "gemini"
        /\ H[3].role = "user"
        /\ H[4].role = "assistant" /\ H[4].provider = "claude"

(***************************************************************************)
(* Claims about the history store                                          *)
(***************************************************************************)
\* C8: on threads that start fresh, load_history returns exactly the
\* messages of the add_message calls made on that thread, in call order,
\* repeated messages included; and the stored sequence before any step is a
\* prefix of the stored sequence after it.
C8_AppendsPreserveOrder ==
    /\ [](/\ \A t \in Threads : load_history(files, t) = appended[t]
          /\ (ret.op = "load_history" => ret.value = appended[current_thread]))
    /\ [][\A t \in Threads : IsPrefix(load_history(files, t), load_history(files', t))]_vars

\* Witness for C8: the same message was appended twice in a row after another
\* one, and load_history returned all three.
C8_Witness ==
    /\ ret.op = "load_history"
    /\ Len(ret.value) = 3
    /\ ret.value[2] = ret.value[3]
    /\ ret.value[1] # ret.value[2]

\* C9 (as claimed): get_context_messages(K) returns the last min(K, len)
\* messages of the thread for every K >= 0, K = 0 included.
C9_WindowIsLastMinK ==
    ret.op = "get_context_messages" =>
        ret.value = LastN(load_history(files, current_thread), ret.max_messages)

\* What the code does instead: the window is right for every K >= 1, and
\* K = 0 returns the whole thread.
C9_WindowAsCoded ==
    ret.op = "get_context_messages" =>
        /\ (ret.max_messages >= 1 =>
               ret.value = LastN(load_history(files, current_thread), ret.max_messages))
        /\ (ret.max_messages = 0 => ret.value = load_history(files, current_thread))

(***************************************************************************)
(* Claims about what a session leaves in the history                       *)
(***************************************************************************)
\* C11 (as claimed): when a deep thinking turn finishes, in main.run or in
\* the interactive '/deep' command, the active thread's history becomes what
\* it was, followed by the user message with the prompt and then an assistant
\* message whose content is the synthesis content and whose provider is
\* 'deep_thinking', which is no registered provider's name.
C11_DeepTurnAppended ==
    [][(pc = "returned" /\ caller \in {"run", "command"} /\ args.deep /\ pc' # "returned") =>
         LET H == load_history(files, current_thread)
             H2 == load_history(files', current_thread)
             n == Len(H)
         IN  /\ Len(H2) = n + 2
             /\ SubSeq(H2, 1, n) = H
             /\ H2[n + 1].role = "user"
             /\ H2[n + 1].content = args.prompt
             /\ H2[n + 2].role = "assistant"
             /\ H2[n + 2].content = calls[Len(calls)].outcome.value.content
             /\ H2[n + 2].provider = "deep_thinking"
             /\ H2[n + 2].provider \notin Providers]_vars

\* The part of C11 the code does: a deep thinking turn of main.run is stored.
C11_DeepRunAppended ==
    [][(pc = "returned" /\ caller = "run" /\ args.deep /\ pc' # "returned") =>
         LET H == load_history(files, current_thread)
             H2 == load_history(files', current_thread)
             n == Len(H)
         IN  /\ Len(H2) = n + 2
             /\ SubSeq(H2, 1, n) = H
             /\ H2[n + 1].role = "user"
             /\ H2[n + 1].content = args.prompt
             /\ H2[n + 2].role = "assistant"
             /\ H2[n + 2].content = calls[Len(calls)].outcome.value.content
             /\ H2[n + 2].provider = "deep_thinking"
             /\ H2[n + 2].provider \notin Providers]_vars

\* What '/deep' does instead: the turn leaves every stored thread as it was.
C11_DeepCommandStoresNothing ==
    [][(pc = "returned" /\ caller = "command") => files' = files]_vars

\* C12: set_thread changes only the thread later operations address: every
\* thread's file, the old active thread's and the new one's included, holds
\* the same messages before and after the call, and no file appears or
\* disappears.
C12_SetThreadKeepsEveryRecord ==
    [][(ret'.op = "set_thread" /\ clock' = clock) =>
         /\ \A t \in Threads :
               /\ load_history(files', t) = load_history(files, t)
               /\ (files'[t] = NoFile) = (files[t] = NoFile)
         /\ files' = files
         /\ appended' = appended]_vars

\* Witness for C12: the session switched from "default", which holds two
\* messages, to "demo", which still has no file.
C12_Witness ==
    /\ ret.op = "set_thread"
    /\ current_thread = "demo"
    /\ Len(load_history(files, "default")) = 2
    /\ files["demo"] = NoFile

(***************************************************************************)
(* add_message step by step: save_history opens the file for writing,      *)
(* which empties it, json.dump writes the list piece by piece, and the     *)
(* file is closed.  The process can be interrupted or killed between any   *)
(* two of these steps.                                                     *)
(***************************************************************************)
\* add_message up to its call of save_history: load, build the message, append.
SaveAddMessage ==
    /\ pc = "init"
    /\ TotalAppended < MaxAppends
    /\ \E m \in HistoryInputs :
          LET r == load_history_result(files, current_thread)
          IN  IF r.kind = "raise"
              THEN /\ ret' = [op |-> "add_message", outcome |-> r]
                   /\ UNCHANGED <<pc, args>>
              ELSE /\ ret' = [op |-> "add_message", outcome |-> "running"]
                   /\ pc' = "save_history"
                   /\ args' = [op |-> "add_message", old |-> r.value,
                               history |-> Append(r.value,
                                                  new_message(m[1], m[2], m[3], clock))]
    /\ UNCHANGED <<files, current_thread, clock, appended>>
    /\ UNCHANGED <<caller, context, tasks, calls, responses, response, shown, turns>>
    /\ UNCHANGED cvars

\* open(self.history_file, 'w'): the file exists and is empty.
SaveOpen ==
    /\ pc = "save_history"
    /\ files' = [files EXCEPT ![current_thread] = json_truncated(json_dump(args.history), 0)]
    /\ pc' = "json_dump"
    /\ UNCHANGED <<current_thread, clock, ret, appended>>
    /\ UNCHANGED <<caller, args, context, tasks, calls, responses, response, shown, turns>>
    /\ UNCHANGED cvars

\* json.dump(history, f, indent=2): the next object reaches the file, or,
\* after the last one, the list is closed and add_message returns.
SaveWrite ==
    /\ pc = "json_dump"
    /\ LET text == json_dump(args.history)
           k == Len(files[current_thread]) - 1
       IN  IF k < Len(text)
           THEN /\ files' = [files EXCEPT ![current_thread] = json_truncated(text, k + 1)]
                /\ UNCHANGED <<pc, args, ret, appended>>
           ELSE /\ files' = [files EXCEPT ![current_thread] = text]
                /\ pc' = "init"
                /\ args' = NoArgs
                /\ ret' = [op |-> "add_message", outcome |-> Return(None)]
                /\ appended' = [appended EXCEPT ![current_thread] =
                                   Append(@, args.history[Len(args.history)])]
    /\ UNCHANGED <<current_thread, clock>>
    /\ UNCHANGED <<caller, context, tasks, calls, responses, response, shown, turns>>
    /\ UNCHANGED cvars

\* A KeyboardInterrupt or the end of the process inside save_history: the
\* file stays as the steps so far left it.
SaveInterrupt ==
    /\ pc \in {"save_history", "json_dump"}
    /\ pc' = "init"
    /\ ret' = [op |-> "interrupted", old |-> args.old, history |-> args.history]
    /\ args' = NoArgs
    /\ UNCHANGED <<files, current_thread, clock, appended>>
    /\ UNCHANGED <<caller, context, tasks, calls, responses, response, shown, turns>>
    /\ UNCHANGED cvars

\* load_history after that.
SaveLoadHistory ==
    /\ pc = "init"
    /\ ret' = [op |-> "load_history", outcome |-> load_history_result(files, current_thread)]
    /\ UNCHANGED <<files, current_thread, clock, appended>>
    /\ UNCHANGED cvars /\ UNCHANGED svars

SaveNext ==
    \/ SaveAddMessage
    \/ SaveOpen
    \/ SaveWrite
    \/ SaveInterrupt
    \/ SaveLoadHistory

InitSave ==
    /\ HistoryInit
    /\ SessionInit
    /\ default_provider = "mistral"
    /\ mistral_api_key = TRUE
    /\ gemini_configured = TRUE
    /\ anthropic_client = TRUE

SpecSave == InitSave /\ [][SaveNext]_vars

\* The file of the active thread holds a complete list, either old or new.
DurableIsOneOf(old, new) ==
    LET r == load_history_result(files, current_thread)
    IN  r.kind = "return" /\ r.value \in {old, new}

\* C13 (as claimed): at every point of add_message, and after an
\* interruption between the start and the end of save_history, the thread's
\* file holds either the complete old list or the complete new list (the
\* old list plus the new message), never an empty, truncated or partial one.
C13_AppendIsAtomic ==
    /\ pc \in {"save_history", "json_dump"} => DurableIsOneOf(args.old, args.history)
    /\ ret.op = "interrupted" => DurableIsOneOf(ret.old, ret.history)

\* What holds instead: before the file is opened it holds the old list, and
\* from then until the list is closed it holds an incomplete text that
\* load_history cannot read.
C13_SaveAsCoded ==
    /\ pc = "save_history" => DurableIsOneOf(args.old, args.old)
    /\ pc = "json_dump" => load_history_result(files, current_thread).kind = "raise"
    /\ pc = "init" /\ ret.op # "interrupted" /\ ret.op # "load_history"
          /\ (ret.op = "add_message" => ret.outcome = Return(None))
          => DurableIsOneOf(appended[current_thread], appended[current_thread])

\* C14: load_history is a pure read: a call that directly follows another
\* load_history on the same thread, with no add_message between, returns the
\* same list; on a thread nothing was ever added to it returns [] each time;
\* and the call leaves every stored file as it was.
C14_LoadHistoryIsPureRead ==
    /\ [](ret.op = "load_history" =>
             /\ \A i \in 1..Len(ret.previous) : ret.previous[i] = ret.value
             /\ (appended[current_thread] = <<>> => ret.value = <<>>))
    /\ [][(ret'.op = "load_history" /\ clock' = clock) =>
             /\ files' = files
             /\ appended' = appended
             /\ current_thread' = current_thread]_vars

\* Witness for C14: load_history was called twice in a row on a thread
\* holding two messages.
C14_Witness ==
    /\ ret.op = "load_history"
    /\ ret.previous = <<ret.value>>
    /\ Len(ret.value) = 2
    /\ files[current_thread] # NoFile

(***************************************************************************)
(* Claims about what the adapters and the orchestrator hand on             *)
(***************************************************************************)
\* C15 (as claimed): whatever the adapter and the context, every context
\* message in the request the adapter sends has role user or assistant; a
\* context message with another role is never part of the request.
C15_OnlyChatRolesForwarded ==
    (ret.op = "generate_response" /\ ret.reached) =>
        \A i \in 1..Len(ret.sent) : ret.sent[i].role \in {"user", "assistant"}

\* What holds instead: the Mistral and Claude adapters send the user and
\* assistant messages of the context only, the Gemini adapter sends the last
\* five context messages whatever their role.
C15_ForwardedAsCoded ==
    (ret.op = "generate_response" /\ ret.reached) =>
        IF ret.provider = "gemini"
        THEN ret.sent = [i \in 1..Len(ret.context) |->
                            [role |-> ret.context[i].role,
                             content |-> ret.context[i].content]]
        ELSE \A i \in 1..Len(ret.sent) : ret.sent[i].role \in {"user", "assistant"}

\* C17: in a deep thinking turn the synthesis call is made with no context:
\* whatever the active thread holds, the request of the synthesis call
\* consists of the synthesis prompt alone, while every fan-out call of the
\* same turn was handed the history window of the active thread.
C17_SynthesisGetsNoContext ==
    args.deep =>
        /\ \A i \in SynthesisCalls :
              /\ calls[i].context = <<>>
              /\ calls[i].sent \in {<<>>, <<[role |-> "user", content |-> SynthesisPrompt]>>}
              /\ (mistral_api_key =>
                     calls[i].sent = <<[role |-> "user", content |-> SynthesisPrompt]>>)
        /\ \A i \in FanOutCalls :
              /\ calls[i].context =
                    get_context_messages(files, current_thread, DefaultMaxMessages)
              /\ (IssuesRequest(calls[i].provider, mistral_api_key, gemini_configured,
                                anthropic_client) =>
                     calls[i].sent =
                        provider_request(calls[i].provider, args.prompt,
                                         get_context_messages(files, current_thread,
                                                              DefaultMaxMessages)))

\* Witness for C17: the active thread holds a stored turn; the Mistral call of
\* the fan-out sent those two messages before the prompt, and the synthesis
\* call sent the synthesis prompt only.
C17_Witness ==
    /\ DeepReturned
    /\ Len(load_history(files, current_thread)) = 2
    /\ \E i \in FanOutCalls :
          /\ calls[i].provider = "mistral"
          /\ Len(calls[i].sent) = 3
          /\ calls[i].sent[1].content = "ping"
          /\ calls[i].sent[2].role = "assistant"
    /\ \E i \in SynthesisCalls : Len(calls[i].sent) = 1

(***************************************************************************)
(* The interactive session over history files that an interrupted save     *)
(* can leave incomplete.                                                   *)
(***************************************************************************)
\* A KeyboardInterrupt, or the end of the process, inside save_history while
\* the turn is saved (in its first or its second add_message): the loop ends
\* and the file keeps the k objects written so far.
FinishLoopInterrupted ==
    /\ pc = "returned" /\ caller = "loop"
    /\ \E n \in 1..2 :
          LET saved == <<new_message("user", args.prompt, None, clock),
                         new_message("assistant", response.content, response.provider,
                                     clock)>>
              text == json_dump(load_history(files, current_thread) \o SubSeq(saved, 1, n))
          IN  \E k \in 0..Len(text) :
                 files' = [files EXCEPT ![current_thread] = json_truncated(text, k)]
    /\ shown' = display_response(response)
    /\ pc' = "done"
    /\ ResetTurn
    /\ UNCHANGED <<current_thread, clock, ret, appended>>
    /\ UNCHANGED turns
    /\ UNCHANGED cvars

\* '/history' is read and handed to handle_command.
InputHistory ==
    /\ pc = "prompt"
    /\ pc' = "history"
    /\ caller' = "command"
    /\ UNCHANGED <<args, context, tasks, calls, responses, response, shown, turns>>
    /\ UNCHANGED hvars /\ UNCHANGED cvars

\* handle_command '/history': load_history, then the table or 'No history'.
CommandHistory ==
    /\ pc = "history"
    /\ IF load_history_result(files, current_thread).kind = "raise"
       THEN HandleException(caller)
       ELSE /\ pc' = "prompt"
            /\ shown' = "history"
    /\ ResetTurn
    /\ UNCHANGED turns
    /\ UNCHANGED hvars /\ UNCHANGED cvars

LoopNext ==
    \/ MainInteractive
    \/ InputExit
    \/ InputShow
    \/ InputPrompt
    \/ InputHistory
    \/ CommandHistory
    \/ CommandDeep
    \/ CommandProvider
    \/ CommandThread
    \/ AdapterBegin
    \/ AdapterResolve
    \/ StartSynthesis
    \/ SynthesisResolve
    \/ FinishLoop
    \/ FinishCommand
    \/ FinishLoopInterrupted
    \/ DispatchInterrupted
    \/ Restart

InitLoop ==
    /\ HistoryInit
    /\ SessionInit
    /\ default_provider = "mistral"
    /\ \E keys \in Environments :
          /\ mistral_api_key = keys[1]
          /\ gemini_configured = keys[2]
          /\ anthropic_client = keys[3]

SpecLoop == InitLoop /\ [][LoopNext]_vars

\* The file of thread t cannot be parsed.
Unreadable(fs, t) == load_history_result(fs, t).kind = "raise"

\* Control is inside interactive_mode's loop.
InLoop ==
    \/ pc \in {"prompt", "history"}
    \/ caller \in {"loop", "command"} /\ pc \in {"single", "fanout", "synth", "returned"}

\* C16: in the interactive loop, when processing an input raises (here the
\* history file of the active thread cannot be read, in the dispatch of a
\* prompt, in '/deep' or in '/history'), the error is presented and the loop
\* reads the next input; the loop is left only by an exit directive or a user
\* interrupt, never by such an error.
C16_LoopSurvivesErrors ==
    [][/\ (/\ Unreadable(files, current_thread)
           /\ \/ pc = "prompt" /\ turns' = turns + 1
              \/ pc = "history" /\ pc' # "history")
          => (shown' = "exception" /\ pc' = "prompt" /\ files' = files)
       /\ (InLoop /\ pc' \notin {"prompt", "history", "single", "fanout", "synth",
                                 "returned"})
          => /\ pc' = "done"
             /\ \/ pc = "prompt" /\ turns' = turns
                \/ pc \in {"single", "fanout", "synth"} /\ files' = files
                \/ pc = "returned" /\ Unreadable(files', current_thread)]_vars

\* Witness for C16: the second input of the session met a history file that
\* cannot be read; the error was presented and the loop is at its prompt.
C16_Witness ==
    /\ pc = "prompt"
    /\ shown = "exception"
    /\ Unreadable(files, current_thread)
    /\ turns = 2

(***************************************************************************)
(* Claims about the shape of a stored thread                               *)
(***************************************************************************)
\* The roles of h are user, assistant, user, assistant, ...
Alternates(h) ==
    \A i \in 1..Len(h) : h[i].role = IF i % 2 = 1 THEN "user" ELSE "assistant"

\* C18: with threads that start empty and a store that does not fail, after
\* any sequence of session inputs every thread has even length and its roles
\* alternate user, assistant; a completed prompt turn adds exactly two
\* messages, the second holding the error text when the result is a failed
\* one; a turn left by an exception or interrupt during its dispatch, a
\* sub-directive and a thread switch add none.
C18_ThreadsAlternate ==
    /\ [](\A t \in Threads :
             LET H == load_history(files, t)
             IN  Len(H) % 2 = 0 /\ Alternates(H))
    /\ [][LET H == load_history(files, current_thread)
              H2 == load_history(files', current_thread)
          IN  /\ (pc = "returned" /\ caller \in {"run", "loop"} /\ pc' # "returned") =>
                    /\ Len(H2) = Len(H) + 2
                    /\ SubSeq(H2, 1, Len(H)) = H
                    /\ H2[Len(H) + 1].content = args.prompt
                    /\ H2[Len(H) + 2].content = response.content
                    /\ (GetError(response) => response.content \in ErrorTexts)
              /\ ~(pc = "returned" /\ caller \in {"run", "loop"}) => files' = files]_vars

\* Witness for C18: after a thread switch both threads hold one turn each, the
\* one on "demo" with the error text of a failed result as assistant content.
C18_Witness ==
    LET D == load_history(files, "default")
        H == load_history(files, "demo")
    IN  /\ Len(D) = 2 /\ Len(H) = 2
        /\ D[2].content = "pong"
        /\ H[1].role = "user"
        /\ H[2].role = "assistant"
        /\ H[2].content \in ErrorTexts
        /\ pc = "prompt"

====
